---- MODULE Spec2Model ----
(***************************************************************************)
(* A model of the license-plate recognition store (TH-NDang/lpr-api):      *)
(*   - insertDetectionAndResults (src/src/db/queries.ts), the ingestion    *)
(*     transaction, run by several concurrent calls against one PostgreSQL *)
(*     database under READ COMMITTED isolation;                            *)
(*   - parseFiltersToDrizzle, the filter compiler, as a pure operator;     *)
(*   - fetchDetectionHistory, the paginated history read.                  *)
(* The specifications of the module: Spec (ingestion), SpecFilter (filter  *)
(* compilation), SpecHistory (one history page), SpecSorting (ordering     *)
(* compilation), SpecOptions (filter options), SpecPages (successive       *)
(* pages), SpecHandler (the POST handlers) and SpecNoFault (ingestion      *)
(* without storage failures, under weak fairness).                         *)
(*                                                                         *)
(* Columns that the code copies verbatim from the response into a row and  *)
(* that no branch of the ingestion code reads (bounding box, colour, ...)  *)
(* are left out of the ingestion rows.                                     *)
(***************************************************************************)
EXTENDS Integers, Sequences, FiniteSets, TLC

VARIABLES
    \* ---- ingestion (Spec) ----
    call,                  \* per call of insertDetectionAndResults: its locals
    detections,            \* committed rows of table detections
    licensePlates,         \* committed rows of table license_plates
    detectedPlateResults,  \* committed rows of table detected_plate_results
    detectionsSeq,         \* serial sequences: not rolled back with a transaction
    licensePlatesSeq,
    resultsSeq,
    \* ---- filter compilation (SpecFilter) ----
    filterPc,              \* start -> parse -> done
    queryParams,           \* the validated query of GET /history, if any
    filters,               \* the ApiColumnFiltersState handed to the compiler
    whereCondition,        \* what parseFiltersToDrizzle returned for it
    \* ---- history read (SpecHistory) ----
    history,               \* one fetchDetectionHistory request and its result
    \* ---- ordering compilation (SpecSorting) ----
    sortCall,              \* a sort request and what parseSortingToDrizzle returned
    \* ---- filter options (SpecOptions) ----
    filterOptions,         \* one getFilterOptions call: the store and its result
    \* ---- successive pages (SpecPages) ----
    pages,                 \* a client fetching the pages of one listing in turn
    \* ---- HTTP handlers (SpecHandler) ----
    handler                \* one POST /process-image(-url) request

ingestVars == <<call, detections, licensePlates, detectedPlateResults,
                detectionsSeq, licensePlatesSeq, resultsSeq>>
filterVars == <<filterPc, queryParams, filters, whereCondition>>
otherVars == <<sortCall, filterOptions, pages, handler>>
readVars == <<filterPc, queryParams, filters, whereCondition, history,
              sortCall, filterOptions, pages, handler>>
vars == <<call, detections, licensePlates, detectedPlateResults,
          detectionsSeq, licensePlatesSeq, resultsSeq,
          filterPc, queryParams, filters, whereCondition, history,
          sortCall, filterOptions, pages, handler>>

(***************************************************************************)
(* Bounds of the model.                                                    *)
(***************************************************************************)
MaxCalls == 2
MaxDetections == 2

Calls == 1..MaxCalls

\* SQL NULL / JS null in an id column (serial ids start at 1).
NullId == 0

Range(s) == {s[i] : i \in 1..Len(s)}
SeqsUpTo(S, n) == UNION {[1..k -> S] : k \in 0..n}

(***************************************************************************)
(* Inputs of ingestion: an ApiResponse is its detections list (which may   *)
(* be absent); a detection is its plate_number.                            *)
(***************************************************************************)
PlateNumberInputs == {"A", "B", "", " "}

BackendDetections == [plate_number : PlateNumberInputs]

ApiResponses ==
    {[hasDetections |-> TRUE, detections |-> d] :
        d \in SeqsUpTo(BackendDetections, MaxDetections)}
    \cup {[hasDetections |-> FALSE, detections |-> <<>>]}

\* String.prototype.trim over the input alphabet.
Trim(pn) == IF pn = " " THEN "" ELSE pn

\* queries.ts:49-53: !apiResponse || !apiResponse.detections || length === 0
HasNoDetectionsMutant(apiResponse) == FALSE
HasNoDetections(apiResponse) ==
    \/ ~apiResponse.hasDetections
    \/ Len(apiResponse.detections) = 0

\* queries.ts:83: the filter (pn) => !!pn && pn.trim() !== ""
IsPlateNumberMutant(pn) == pn # ""
IsPlateNumber(pn) == pn # "" /\ Trim(pn) # ""

\* [...new Set(xs)]: the distinct elements in order of first occurrence.
RECURSIVE SetOrder(_)
SetOrder(xs) ==
    IF xs = <<>> THEN <<>>
    ELSE LET init == SetOrder(SubSeq(xs, 1, Len(xs) - 1))
             x == xs[Len(xs)]
         IN IF x \in Range(init) THEN init ELSE Append(init, x)

\* queries.ts:81-84
UniquePlateNumbers(apiResponse) ==
    LET numbers == [i \in 1..Len(apiResponse.detections) |->
                       apiResponse.detections[i].plate_number]
    IN SetOrder(SelectSeq(numbers, IsPlateNumber))

(***************************************************************************)
(* A call's locals. pc is its position in insertDetectionAndResults:       *)
(*   idle -> insertDetection -> upsertPlates -> readPlates ->              *)
(*   insertResults -> commit -> findFirst -> done                          *)
(* plates and results are the rows the open transaction has written and    *)
(* that only it can see; insertedPlateIds/insertedResultIds keep the ids   *)
(* the call ever wrote, for stating what a rollback removes.               *)
(***************************************************************************)
NoResponse == [hasDetections |-> FALSE, detections |-> <<>>]
NoReturn == [kind |-> "none", id |-> NullId, detectedPlates |-> {}]
ReturnNull == [kind |-> "null", id |-> NullId, detectedPlates |-> {}]
ThrowError == [kind |-> "error", id |-> NullId, detectedPlates |-> {}]

IdleCall ==
    [pc |-> "idle", apiResponse |-> NoResponse, detectionId |-> NullId,
     next |-> 1, plates |-> {}, fetchedPlates |-> {}, results |-> {},
     insertedPlateIds |-> {}, insertedResultIds |-> {},
     failedAt |-> "none", ret |-> NoReturn]

InTransaction(p) ==
    call[p].pc \in {"insertDetection", "upsertPlates", "readPlates",
                    "insertResults", "commit"}

Init ==
    /\ call = [p \in Calls |-> IdleCall]
    /\ detections = {}
    /\ licensePlates = {}
    /\ detectedPlateResults = {}
    /\ detectionsSeq = 0
    /\ licensePlatesSeq = 0
    /\ resultsSeq = 0
    /\ filterPc = "unused"
    /\ queryParams = <<>>
    /\ filters = <<>>
    /\ whereCondition = <<>>
    /\ history = <<>>
    /\ sortCall = <<>>
    /\ filterOptions = <<>>
    /\ pages = <<>>
    /\ handler = <<>>

(***************************************************************************)
(* What the PostgreSQL statements of the transaction see and do.           *)
(***************************************************************************)
\* queries.ts:61, 89, 94, 148: every statement of the callback goes through
\* tx, so its writes stay private to the transaction until COMMIT; a write
\* through db would be committed at once.
WriteTargetMutant == "db"
WriteTarget == "tx"

\* The transactions that hold an uncommitted license_plates row for pn.
Holders(pn) ==
    {q \in Calls : InTransaction(q)
                   /\ \E r \in call[q].plates : r.plateNumber = pn}

\* The plate number the multi-row upsert of call p handles next.
NextPlate(p) == UniquePlateNumbers(call[p].apiResponse)[call[p].next]

\* An insert into a unique index waits for the transaction that holds an
\* uncommitted row with the same key.
WaitsFor(p) ==
    IF call[p].pc = "upsertPlates" THEN Holders(NextPlate(p)) \ {p} ELSE {}

RECURSIVE WaitChain(_, _)
WaitChain(S, n) ==
    IF n = 0 THEN S
    ELSE WaitChain(S \cup UNION {WaitsFor(q) : q \in S}, n - 1)

\* p waits, directly or through others, for a transaction that waits for p.
Deadlocked(p) == p \in WaitChain(WaitsFor(p), MaxCalls)

\* queries.ts:89-92 against part_000:87 (plateNumber ... unique()):
\* .onConflictDoNothing({ target: plateNumber }) skips a row whose plate
\* number is already there; without it the insert raises unique_violation.
OnConflictMutant(conflict) == IF conflict THEN "error" ELSE "insert"
OnConflict(conflict) == IF conflict THEN "nothing" ELSE "insert"

\* queries.ts:94-100: the rows the re-read inside the transaction sees under
\* READ COMMITTED: everything committed and the transaction's own rows.
VisiblePlatesMutant(p) == call[p].plates
VisiblePlates(p) == licensePlates \cup call[p].plates

\* queries.ts:102-104, 112-115: licensePlateRecords[pn], undefined when absent
LicensePlateRecord(fetchedPlates, pn) ==
    IF \E r \in fetchedPlates : r.plateNumber = pn
    THEN (CHOOSE r \in fetchedPlates : r.plateNumber = pn).id
    ELSE NullId

LicensePlateId(fetchedPlates, pn) ==
    IF pn # "" /\ LicensePlateRecord(fetchedPlates, pn) # NullId
    THEN LicensePlateRecord(fetchedPlates, pn)
    ELSE NullId

\* queries.ts:108-144: one row per detection of the response, in order.
PlateDataToInsertMutant(c) ==
    LET dets == SelectSeq(c.apiResponse.detections,
                          LAMBDA det : IsPlateNumber(det.plate_number))
    IN [i \in 1..Len(dets) |->
           [detectionId |-> c.detectionId,
            licensePlateId |-> LicensePlateId(c.fetchedPlates, dets[i].plate_number),
            plateNumber |-> dets[i].plate_number]]
PlateDataToInsert(c) ==
    [i \in 1..Len(c.apiResponse.detections) |->
        [detectionId |-> c.detectionId,
         licensePlateId |->
             LicensePlateId(c.fetchedPlates, c.apiResponse.detections[i].plate_number),
         plateNumber |-> c.apiResponse.detections[i].plate_number]]

\* queries.ts:162-165: the catch block logs and throws the ingestion error.
CatchMutant == ReturnNull
Catch == ThrowError

\* db.transaction (queries.ts:59): an error thrown in the callback rolls the
\* transaction back (its private rows are dropped) and is thrown on to the
\* catch block.
Rollback(c, step) ==
    [c EXCEPT !.pc = "done", !.plates = {}, !.results = {},
              !.failedAt = step, !.ret = Catch]

(***************************************************************************)
(* insertDetectionAndResults, one action per statement.                    *)
(***************************************************************************)
\* queries.ts:44-58. Calls are numbered in the order in which they start.
Call(p, apiResponse) ==
    /\ call[p].pc = "idle"
    /\ \A q \in Calls : q < p => call[q].pc # "idle"
    /\ call' = [call EXCEPT ![p] =
           IF HasNoDetections(apiResponse)
           THEN [@ EXCEPT !.pc = "done", !.apiResponse = apiResponse,
                          !.ret = ReturnNull]
           ELSE [@ EXCEPT !.pc = "insertDetection",
                          !.apiResponse = apiResponse]]
    /\ UNCHANGED <<detections, licensePlates, detectedPlateResults,
                   detectionsSeq, licensePlatesSeq, resultsSeq>>
    /\ UNCHANGED readVars

\* queries.ts:60-78
InsertDetection(p) ==
    /\ call[p].pc = "insertDetection"
    /\ LET insertedId == detectionsSeq + 1
           unique == UniquePlateNumbers(call[p].apiResponse)
       IN /\ detectionsSeq' = insertedId
          /\ call' = [call EXCEPT ![p] =
                 IF insertedId = NullId
                 THEN Rollback(@, "insertDetection")
                 ELSE [@ EXCEPT !.detectionId = insertedId,
                                !.next = 1,
                                !.pc = IF Len(unique) > 0 THEN "upsertPlates"
                                       ELSE "insertResults"]]
          /\ detections' = IF WriteTarget = "db"
                           THEN detections \cup {[id |-> insertedId]}
                           ELSE detections
    /\ UNCHANGED <<licensePlates, detectedPlateResults, licensePlatesSeq,
                   resultsSeq>>
    /\ UNCHANGED readVars

\* queries.ts:88-92, one row of the VALUES list at a time, in list order.
UpsertPlate(p) ==
    /\ call[p].pc = "upsertPlates"
    /\ WaitsFor(p) = {}
    /\ LET unique == UniquePlateNumbers(call[p].apiResponse)
           pn == NextPlate(p)
           conflict == \E r \in licensePlates \cup call[p].plates :
                           r.plateNumber = pn
           after == IF call[p].next = Len(unique) THEN "readPlates"
                    ELSE "upsertPlates"
           id == licensePlatesSeq + 1
       IN CASE OnConflict(conflict) = "nothing" ->
                 /\ call' = [call EXCEPT ![p].next = @ + 1, ![p].pc = after]
                 /\ UNCHANGED <<licensePlatesSeq, licensePlates>>
            [] OnConflict(conflict) = "insert" ->
                 /\ call' = [call EXCEPT
                        ![p].next = @ + 1, ![p].pc = after,
                        ![p].plates = @ \cup {[id |-> id, plateNumber |-> pn]},
                        ![p].insertedPlateIds = @ \cup {id}]
                 /\ licensePlatesSeq' = id
                 /\ licensePlates' =
                        IF WriteTarget = "db"
                        THEN licensePlates \cup {[id |-> id, plateNumber |-> pn]}
                        ELSE licensePlates
            [] OTHER ->
                 /\ call' = [call EXCEPT ![p] = Rollback(@, "unique_violation")]
                 /\ UNCHANGED <<licensePlatesSeq, licensePlates>>
    /\ UNCHANGED <<detections, detectedPlateResults, detectionsSeq, resultsSeq>>
    /\ UNCHANGED readVars

\* PostgreSQL's deadlock detector ends a cycle of waiting transactions by
\* aborting one of them: its statement (queries.ts:89-92) raises an error.
DeadlockAbort(p) ==
    /\ call[p].pc = "upsertPlates"
    /\ Deadlocked(p)
    /\ call' = [call EXCEPT ![p] = Rollback(@, "deadlock")]
    /\ UNCHANGED <<detections, licensePlates, detectedPlateResults,
                   detectionsSeq, licensePlatesSeq, resultsSeq>>
    /\ UNCHANGED readVars

\* queries.ts:94-104
ReadPlates(p) ==
    /\ call[p].pc = "readPlates"
    /\ LET unique == UniquePlateNumbers(call[p].apiResponse)
       IN call' = [call EXCEPT
              ![p].fetchedPlates =
                  {r \in VisiblePlates(p) : r.plateNumber \in Range(unique)},
              ![p].pc = "insertResults"]
    /\ UNCHANGED <<detections, licensePlates, detectedPlateResults,
                   detectionsSeq, licensePlatesSeq, resultsSeq>>
    /\ UNCHANGED readVars

\* queries.ts:107-151
InsertResults(p) ==
    /\ call[p].pc = "insertResults"
    /\ LET data == PlateDataToInsert(call[p])
           rows == {[id |-> resultsSeq + i,
                     detectionId |-> data[i].detectionId,
                     licensePlateId |-> data[i].licensePlateId,
                     plateNumber |-> data[i].plateNumber] : i \in 1..Len(data)}
       IN /\ call' = [call EXCEPT
                 ![p].results = rows,
                 ![p].insertedResultIds = {r.id : r \in rows},
                 ![p].pc = "commit"]
          /\ resultsSeq' = resultsSeq + Len(data)
          /\ detectedPlateResults' =
                 IF WriteTarget = "db" THEN detectedPlateResults \cup rows
                 ELSE detectedPlateResults
    /\ UNCHANGED <<detections, licensePlates, detectionsSeq, licensePlatesSeq>>
    /\ UNCHANGED readVars

\* queries.ts:152: the callback returned, db.transaction commits.
Commit(p) ==
    /\ call[p].pc = "commit"
    /\ detections' = detections \cup {[id |-> call[p].detectionId]}
    /\ licensePlates' = licensePlates \cup call[p].plates
    /\ detectedPlateResults' = detectedPlateResults \cup call[p].results
    /\ call' = [call EXCEPT ![p].plates = {}, ![p].results = {},
                            ![p].pc = "findFirst"]
    /\ UNCHANGED <<detectionsSeq, licensePlatesSeq, resultsSeq>>
    /\ UNCHANGED readVars

\* queries.ts:154-161: the read-after-write fetch, outside the transaction.
FindFirst(p) ==
    /\ call[p].pc = "findFirst"
    /\ LET found == {d \in detections : d.id = call[p].detectionId}
       IN call' = [call EXCEPT
              ![p].pc = "done",
              ![p].ret =
                  IF found = {} THEN ReturnNull
                  ELSE [kind |-> "detection", id |-> call[p].detectionId,
                        detectedPlates |->
                            {r \in detectedPlateResults :
                                 r.detectionId = call[p].detectionId}]]
    /\ UNCHANGED <<detections, licensePlates, detectedPlateResults,
                   detectionsSeq, licensePlatesSeq, resultsSeq>>
    /\ UNCHANGED readVars

\* A storage failure (connection lost, statement error) in any statement of
\* the transaction, COMMIT included: queries.ts:59-152, caught at 162.
Fault(p) ==
    /\ InTransaction(p)
    /\ call' = [call EXCEPT ![p] = Rollback(@, call[p].pc)]
    /\ UNCHANGED <<detections, licensePlates, detectedPlateResults,
                   detectionsSeq, licensePlatesSeq, resultsSeq>>
    /\ UNCHANGED readVars

\* A storage failure in the read-after-write fetch: queries.ts:154, caught
\* at 162 after the transaction has committed.
FindFirstFault(p) ==
    /\ call[p].pc = "findFirst"
    /\ call' = [call EXCEPT ![p].pc = "done", ![p].failedAt = "findFirst",
                            ![p].ret = Catch]
    /\ UNCHANGED <<detections, licensePlates, detectedPlateResults,
                   detectionsSeq, licensePlatesSeq, resultsSeq>>
    /\ UNCHANGED readVars

Next ==
    \E p \in Calls :
        \/ \E apiResponse \in ApiResponses : Call(p, apiResponse)
        \/ InsertDetection(p)
        \/ UpsertPlate(p)
        \/ DeadlockAbort(p)
        \/ ReadPlates(p)
        \/ InsertResults(p)
        \/ Commit(p)
        \/ FindFirst(p)
        \/ Fault(p)
        \/ FindFirstFault(p)

Spec == Init /\ [][Next]_vars

(***************************************************************************)
(* Properties of ingestion, checked under Spec.                            *)
(***************************************************************************)
tables == <<detections, licensePlates, detectedPlateResults>>

NumDetections(p) == Len(call[p].apiResponse.detections)

\* The transaction of call p has committed.
HasCommitted(p) ==
    \/ call[p].pc = "findFirst"
    \/ call[p].pc = "done" /\ call[p].ret.kind = "detection"
    \/ call[p].pc = "done" /\ call[p].failedAt = "findFirst"

\* The transaction of call p was rolled back by a failure inside it.
RolledBack(p) ==
    call[p].failedAt \in {"insertDetection", "upsertPlates", "readPlates",
                          "insertResults", "commit", "deadlock",
                          "unique_violation"}

RECURSIVE SumDetections(_)
SumDetections(S) ==
    IF S = {} THEN 0
    ELSE LET x == CHOOSE y \in S : TRUE
         IN NumDetections(x) + SumDetections(S \ {x})

\* C1: a call whose response has an empty (or absent) detection list returns
\* null in one step, opens no transaction, and leaves the three tables and
\* their sequences as they were.
C1_EmptyResponseWritesNothing ==
    [][\A p \in Calls :
          (call[p].pc = "idle" /\ call'[p].pc # "idle"
           /\ call'[p].apiResponse.detections = <<>>)
          => /\ call'[p].pc = "done"
             /\ call'[p].ret = ReturnNull
             /\ call'[p].detectionId = NullId
             /\ tables' = tables
             /\ <<detectionsSeq, licensePlatesSeq, resultsSeq>>' =
                    <<detectionsSeq, licensePlatesSeq, resultsSeq>>]_vars

\* C1 witness: a call with an empty response has returned null while the
\* store already held rows of an earlier call.
C1_Witness ==
    \E p \in Calls :
        /\ call[p].pc = "done"
        /\ call[p].apiResponse.detections = <<>>
        /\ call[p].ret.kind = "null"
        /\ detections # {} /\ detectedPlateResults # {}

\* C2: a successful call on n >= 1 detections has added exactly one Detection
\* row and exactly n DetectedPlateResult rows, all referencing that
\* Detection; in every committed state every result row references an
\* existing Detection and every Detection owns at least one result row.
C2_OneDetectionAndNResults ==
    /\ \A p \in Calls :
          call[p].ret.kind = "detection" =>
              /\ NumDetections(p) >= 1
              /\ Cardinality({d \in detections : d.id = call[p].detectionId}) = 1
              /\ Cardinality({r \in detectedPlateResults :
                                 r.detectionId = call[p].detectionId})
                    = NumDetections(p)
              /\ \A q \in Calls \ {p} :
                    call[q].detectionId # call[p].detectionId
    /\ Cardinality(detections) = Cardinality({p \in Calls : HasCommitted(p)})
    /\ Cardinality(detectedPlateResults)
          = SumDetections({p \in Calls : HasCommitted(p)})
    /\ \A r \in detectedPlateResults :
          \E d \in detections : d.id = r.detectionId
    /\ \A d \in detections :
          \E r \in detectedPlateResults : r.detectionId = d.id

\* C2 witness: a call on two detections, one of them without a plate number,
\* has succeeded and its two result rows are in the table.
C2_Witness ==
    \E p \in Calls :
        /\ call[p].ret.kind = "detection"
        /\ NumDetections(p) = 2
        /\ \E i \in 1..2 :
              ~IsPlateNumber(call[p].apiResponse.detections[i].plate_number)
        /\ Cardinality({r \in detectedPlateResults :
                           r.detectionId = call[p].detectionId}) = 2

\* C3: license_plates never holds two rows with one plate number, neither
\* committed nor in open transactions, whatever the interleaving and the
\* rollbacks; no call ever fails with a uniqueness error.
C3_PlateNumberUnique ==
    /\ \A r1, r2 \in licensePlates :
          r1.plateNumber = r2.plateNumber => r1 = r2
    /\ \A p \in Calls :
          \A r \in call[p].plates :
              /\ \A c \in licensePlates : c.plateNumber # r.plateNumber
              /\ \A q \in Calls \ {p} :
                    \A r2 \in call[q].plates : r2.plateNumber # r.plateNumber
    /\ \A p \in Calls : call[p].failedAt # "unique_violation"

\* C3 witness: two calls that both carried plate number "A" have succeeded
\* and the table holds one row for "A".
C3_Witness ==
    /\ \A p \in Calls :
          /\ call[p].ret.kind = "detection"
          /\ "A" \in Range(UniquePlateNumbers(call[p].apiResponse))
    /\ Cardinality({r \in licensePlates : r.plateNumber = "A"}) = 1

\* Calls p and q have both succeeded on one and the same response.
SameResponseTwice(p, q) ==
    /\ p # q
    /\ call[p].ret.kind = "detection"
    /\ call[q].ret.kind = "detection"
    /\ call[p].apiResponse = call[q].apiResponse

C4_TwoDetections ==
    \A p, q \in Calls :
        SameResponseTwice(p, q) =>
            /\ call[p].detectionId # call[q].detectionId
            /\ \A c \in {p, q} :
                  /\ [id |-> call[c].detectionId] \in detections
                  /\ call[c].ret.id = call[c].detectionId
                  /\ Cardinality(call[c].ret.detectedPlates) = NumDetections(c)
                  /\ call[c].ret.detectedPlates \subseteq detectedPlateResults
            /\ call[p].ret.detectedPlates \cap call[q].ret.detectedPlates = {}
            /\ \A r1 \in call[p].ret.detectedPlates :
                  \A r2 \in call[q].ret.detectedPlates :
                      r1.plateNumber = r2.plateNumber
                          => r1.licensePlateId = r2.licensePlateId

C4_SecondCommitAddsNoPlate ==
    \A p \in Calls :
        (/\ call[p].pc = "commit"
         /\ call'[p].pc = "findFirst"
         /\ \E q \in Calls \ {p} :
               HasCommitted(q) /\ call[q].apiResponse = call[p].apiResponse)
        => licensePlates' = licensePlates

\* C4: two successful calls on the same response leave two distinct
\* Detection rows, each with its own full set of result rows; the commit of
\* the second adds no license_plates row; and result rows of the two calls
\* with the same plate number carry the same licensePlateId.
C4_SameResponseTwice ==
    [][C4_TwoDetections' /\ C4_SecondCommitAddsNoPlate]_vars

\* C4 witness: the response <<"A", "B">> has been ingested twice with
\* success, and every result row has a license plate.
C4_Witness ==
    \E p, q \in Calls :
        /\ SameResponseTwice(p, q)
        /\ NumDetections(p) = 2
        /\ Cardinality(licensePlates) = 2
        /\ \A r \in call[p].ret.detectedPlates \cup call[q].ret.detectedPlates :
              r.licensePlateId # NullId

\* C5: after a failure in any step inside the transaction the call has
\* raised an error and no Detection, LicensePlate or DetectedPlateResult row
\* it wrote is in the tables.
C5_FailureRollsBack ==
    \A p \in Calls :
        RolledBack(p) =>
            /\ call[p].pc = "done"
            /\ call[p].ret.kind = "error"
            /\ \A d \in detections : d.id # call[p].detectionId
            /\ \A r \in licensePlates : r.id \notin call[p].insertedPlateIds
            /\ \A r \in detectedPlateResults :
                  /\ r.id \notin call[p].insertedResultIds
                  /\ r.detectionId # call[p].detectionId

\* C5 witness: a call failed at COMMIT, after it had written a Detection, a
\* LicensePlate and its result rows, while the other call's rows are stored.
C5_Witness ==
    \E p \in Calls :
        /\ call[p].failedAt = "commit"
        /\ call[p].detectionId # NullId
        /\ call[p].insertedPlateIds # {}
        /\ call[p].insertedResultIds # {}
        /\ detections # {}

\* C6: a completed call returns null exactly when the response has no
\* detections; on a response with detections it returns the created
\* Detection with its result rows or raises, and raises after any failure.
C6_NullOnlyForEmpty ==
    \A p \in Calls :
        call[p].pc = "done" =>
            /\ call[p].ret.kind = "null" <=> NumDetections(p) = 0
            /\ NumDetections(p) >= 1 =>
                  /\ call[p].ret.kind \in {"detection", "error"}
                  /\ call[p].failedAt # "none" <=> call[p].ret.kind = "error"
                  /\ call[p].ret.kind = "detection" =>
                        /\ call[p].ret.id = call[p].detectionId
                        /\ Cardinality(call[p].ret.detectedPlates)
                              = NumDetections(p)

\* C6 witness: one call on a non-empty response has raised after a storage
\* failure and another has returned its Detection.
C6_Witness ==
    \E p, q \in Calls :
        /\ call[p].pc = "done" /\ NumDetections(p) >= 1
        /\ call[p].failedAt # "none" /\ call[p].ret.kind = "error"
        /\ call[q].pc = "done" /\ call[q].ret.kind = "detection"

\* C14: in every committed state, a result row of a non-blank plate number
\* is linked to the one license_plates row of that plate number, whichever
\* call inserted it; a result row of an empty or whitespace-only plate number
\* has a null link, and no license_plates row exists for such a number.
C14_ResultLinksItsPlate ==
    /\ \A r \in detectedPlateResults :
           IF r.plateNumber \in {"", " "}
           THEN r.licensePlateId = NullId
           ELSE /\ r.licensePlateId # NullId
                /\ \E l \in licensePlates :
                       /\ l.id = r.licensePlateId
                       /\ l.plateNumber = r.plateNumber
                       /\ \A m \in licensePlates :
                              m.plateNumber = r.plateNumber => m = l
    /\ \A l \in licensePlates : l.plateNumber \notin {"", " "}

\* C14 witness: two calls have committed results of plate "A" with the same
\* link, and a result of a whitespace-only plate number is committed too.
C14_Witness ==
    /\ \E r1, r2 \in detectedPlateResults :
           /\ r1.detectionId # r2.detectionId
           /\ r1.plateNumber = "A" /\ r2.plateNumber = "A"
           /\ r1.licensePlateId = r2.licensePlateId
           /\ r1.licensePlateId # NullId
    /\ \E r \in detectedPlateResults :
           r.plateNumber = " " /\ r.licensePlateId = NullId

\* C15: whenever a call has raised its ingestion error, no row written by
\* that call is in the tables, also when the failure was in the
\* read-after-write fetch that follows the transaction.
C15_RaisedMeansNothingStored ==
    \A p \in Calls :
        (call[p].pc = "done" /\ call[p].ret.kind = "error") =>
            /\ \A d \in detections : d.id # call[p].detectionId
            /\ \A r \in licensePlates : r.id \notin call[p].insertedPlateIds
            /\ \A r \in detectedPlateResults :
                  r.id \notin call[p].insertedResultIds

(***************************************************************************)
(* SpecNoFault: ingestion without injected storage faults. Every statement *)
(* that can run does run (the database serves each connection), and the    *)
(* deadlock detector does fire on a wait cycle.                            *)
(***************************************************************************)
NextNoFault ==
    \E p \in Calls :
        \/ \E apiResponse \in ApiResponses : Call(p, apiResponse)
        \/ InsertDetection(p)
        \/ UpsertPlate(p)
        \/ DeadlockAbort(p)
        \/ ReadPlates(p)
        \/ InsertResults(p)
        \/ Commit(p)
        \/ FindFirst(p)

SpecNoFault == Init /\ [][NextNoFault]_vars /\ WF_vars(NextNoFault)

\* Calls p and q are in their transactions at once, on the plate numbers
\* [A, B] and [B, A].
OppositeOrders(p, q) ==
    /\ InTransaction(p)
    /\ InTransaction(q)
    /\ UniquePlateNumbers(call[p].apiResponse) = <<"A", "B">>
    /\ UniquePlateNumbers(call[q].apiResponse) = <<"B", "A">>

\* C16: without storage faults, two transactions that run at once on the
\* plate numbers [A, B] and [B, A] both eventually commit: neither is
\* aborted and neither waits forever.
C16_BothEventuallyCommit ==
    \A p, q \in Calls :
        OppositeOrders(p, q) ~> (HasCommitted(p) /\ HasCommitted(q))

(***************************************************************************)
(* The filter compiler, parseFiltersToDrizzle (queries.ts:178-296).        *)
(*                                                                         *)
(* A JS string is a sequence of characters. A JS number x is the integer   *)
(* 100 * x (fixed point, two decimals), so that x / 100 is exact for the   *)
(* whole numbers the model feeds in; a stored confidence c in [0, 1] is    *)
(* therefore the integer 100 * c. A nullable value is a sequence of at     *)
(* most one element (<<>> is NULL / undefined). An instant is a number of  *)
(* ticks, DayTicks of them to a calendar day.                              *)
(***************************************************************************)
MaxFilters == 2
MaxParams == 2
DayTicks == 3
NumDays == 3

Instants == 0..(NumDays * DayTicks - 1)

\* part_000:15-20
detectionSourceEnum ==
    {<<"u", "p", "l", "o", "a", "d">>, <<"c", "a", "m", "e", "r", "a">>,
     <<"i", "m", "p", "o", "r", "t">>, <<"a", "p", "i">>}

\* part_000:22-29
vehicleCategoryEnum ==
    {<<"c", "a", "r">>, <<"t", "r", "u", "c", "k">>,
     <<"m", "o", "t", "o", "r", "c", "y", "c", "l", "e">>,
     <<"b", "u", "s">>, <<"s", "p", "e", "c", "i", "a", "l">>,
     <<"o", "t", "h", "e", "r">>}

\* The JS number x, for a whole x.
Number(x) == x * 100

\* queries.ts:178-189: filterColumnMap
filterColumnMap ==
    [plateNumber |-> "plateNumber",
     normalizedPlate |-> "normalizedPlate",
     confidence |-> "confidenceDetection",
     date |-> "detectionTime",
     provinceName |-> "provinceName",
     isValidFormat |-> "isValidFormat",
     ocrEngine |-> "ocrEngineUsed",
     typeVehicle |-> "typeVehicle",
     source |-> "source",
     processTime |-> "processTimeMs"]

\* filterColumnMap is a plain object: the keys it inherits from
\* Object.prototype give a truthy value that is no column.
ObjectPrototypeKeys == {"constructor", "toString"}

\* queries.ts:211: filterColumnMap[columnId], "" for undefined
FilterColumn(columnId) ==
    IF columnId \in DOMAIN filterColumnMap THEN filterColumnMap[columnId]
    ELSE IF columnId \in ObjectPrototypeKeys THEN "Object.prototype"
    ELSE ""

(***************************************************************************)
(* Filter values (the `value: unknown` of a filter entry).                 *)
(***************************************************************************)
Undefined == [isNumber |-> FALSE, n |-> 0]
NumberElem(x) == [isNumber |-> TRUE, n |-> Number(x)]

StringValue(str) == [kind |-> "string", str |-> str]
BooleanValue(b) == [kind |-> "boolean", bool |-> b]
ArrayValue(elems) == [kind |-> "array", elems |-> elems]
NumberValue(x) == [kind |-> "number", n |-> Number(x)]
NullValue == [kind |-> "null"]

\* A property of an ApiDateRange object: absent, a Date, or something else.
NoProp == [has |-> FALSE, isDate |-> FALSE, t |-> 0]
DateProp(t) == [has |-> TRUE, isDate |-> TRUE, t |-> t]
OtherProp == [has |-> TRUE, isDate |-> FALSE, t |-> 0]
ObjectValue(from, to) == [kind |-> "object", from |-> from, to |-> to]

(***************************************************************************)
(* SQL conditions and their evaluation on one row of the joined query      *)
(* detected_plate_results LEFT JOIN detections (queries.ts:332-342).       *)
(***************************************************************************)
Lower(c) == IF c = "A" THEN "a" ELSE IF c = "B" THEN "b" ELSE c
LowerAll(str) == [i \in 1..Len(str) |-> Lower(str[i])]

\* SQL LIKE: % matches any run of characters, _ any one character.
RECURSIVE Like(_, _)
Like(text, pattern) ==
    IF pattern = <<>> THEN text = <<>>
    ELSE IF Head(pattern) = "%"
         THEN \/ Like(text, Tail(pattern))
              \/ text # <<>> /\ Like(Tail(text), pattern)
         ELSE /\ text # <<>>
              /\ Head(pattern) = "_" \/ Head(pattern) = Head(text)
              /\ Like(Tail(text), Tail(pattern))

ILike(text, pattern) == Like(LowerAll(text), LowerAll(pattern))

\* The value of a text or enum column in the joined row, <<>> for NULL.
TextColumn(row, column) ==
    CASE column = "plateNumber" -> <<row.plateNumber>>
      [] column = "normalizedPlate" -> row.normalizedPlate
      [] column = "provinceName" -> row.provinceName
      [] column = "ocrEngineUsed" -> row.ocrEngineUsed
      [] column = "typeVehicle" -> row.typeVehicle
      [] column = "source" ->
             IF row.detection = <<>> THEN <<>> ELSE row.detection[1].source
      [] OTHER -> <<>>

\* The value of a numeric or timestamp column in the joined row.
NumericColumn(row, column) ==
    CASE column = "confidenceDetection" -> <<row.confidenceDetection>>
      [] column = "processTimeMs" ->
             IF row.detection = <<>> \/ row.detection[1].processTimeMs = <<>>
             THEN <<>>
             ELSE <<Number(row.detection[1].processTimeMs[1])>>
      [] column = "detectionTime" ->
             IF row.detection = <<>> THEN <<>>
             ELSE <<row.detection[1].detectionTime>>
      [] OTHER -> <<>>

\* One comparison; a comparison with NULL is not true.
Holds(cond, row) ==
    CASE cond.op = "ilike" ->
             LET v == TextColumn(row, cond.column)
             IN v # <<>> /\ ILike(v[1], cond.pattern)
      [] cond.op = "eq" ->
             LET v == TextColumn(row, cond.column)
             IN v # <<>> /\ v[1] = cond.str
      [] cond.op = "eqBool" ->
             row.isValidFormat # <<>> /\ row.isValidFormat[1] = cond.bool
      [] cond.op = "gte" ->
             LET v == NumericColumn(row, cond.column)
             IN v # <<>> /\ v[1] >= cond.n
      [] cond.op = "lte" ->
             LET v == NumericColumn(row, cond.column)
             IN v # <<>> /\ v[1] <= cond.n
      [] cond.op = "lt" ->
             LET v == NumericColumn(row, cond.column)
             IN v # <<>> /\ v[1] < cond.n

\* parseFiltersToDrizzle's result: undefined, or the AND of the pushed
\* conditions, each of them the AND of one or two comparisons.
UndefinedCondition == [defined |-> FALSE, conditions |-> <<>>]

\* .where(whereCondition): no WHERE clause when it is undefined.
Matches(where, row) ==
    \/ ~where.defined
    \/ \A i \in 1..Len(where.conditions) :
           \A j \in 1..Len(where.conditions[i]) :
               Holds(where.conditions[i][j], row)

(***************************************************************************)
(* parseFiltersToDrizzle: what one filter entry pushes on `conditions`     *)
(* (a sequence of zero or one pushed condition).                           *)
(***************************************************************************)
\* queries.ts:216-222
TextConditions(column, value) ==
    IF value.kind = "string" /\ Len(value.str) > 0
    THEN << <<[op |-> "ilike", column |-> column,
               pattern |-> <<"%">> \o value.str \o <<"%">>]>> >>
    ELSE <<>>

\* queries.ts:223-239
EnumConditionsMutant(columnId, column, value) ==
    IF value.kind = "string" /\ Len(value.str) > 0
    THEN << <<[op |-> "eq", column |-> column, str |-> value.str]>> >>
    ELSE <<>>
EnumConditionsIlikeMutant(columnId, column, value) ==
    IF value.kind = "string" /\ Len(value.str) > 0
    THEN IF columnId = "typeVehicle" /\ value.str \notin vehicleCategoryEnum
         THEN <<>>
         ELSE IF columnId = "source" /\ value.str \notin detectionSourceEnum
         THEN <<>>
         ELSE << <<[op |-> "ilike", column |-> column, pattern |-> value.str]>> >>
    ELSE <<>>
EnumConditions(columnId, column, value) ==
    IF value.kind = "string" /\ Len(value.str) > 0
    THEN IF columnId = "typeVehicle" /\ value.str \notin vehicleCategoryEnum
         THEN <<>>
         ELSE IF columnId = "source" /\ value.str \notin detectionSourceEnum
         THEN <<>>
         ELSE << <<[op |-> "eq", column |-> column, str |-> value.str]>> >>
    ELSE <<>>

\* queries.ts:251, 255: columnId === "confidence" ? bound / 100 : bound
RangeBoundMutant(columnId, n) == n
RangeBound(columnId, n) == IF columnId = "confidence" THEN n \div 100 ELSE n

\* queries.ts:240-262
RangeConditions(columnId, column, value) ==
    IF /\ value.kind = "array"
       /\ Len(value.elems) = 2
       /\ value.elems[1].isNumber \/ value.elems[2].isNumber
    THEN LET min == value.elems[1]
             max == value.elems[2]
             conditionList ==
                 (IF min.isNumber
                  THEN <<[op |-> "gte", column |-> column,
                          n |-> RangeBound(columnId, min.n)]>>
                  ELSE <<>>)
                 \o
                 (IF max.isNumber
                  THEN <<[op |-> "lte", column |-> column,
                          n |-> RangeBound(columnId, max.n)]>>
                  ELSE <<>>)
         IN IF Len(conditionList) > 0 THEN <<conditionList>> ELSE <<>>
    ELSE <<>>

\* queries.ts:263-267
BooleanConditions(column, value) ==
    IF value.kind = "boolean"
    THEN << <<[op |-> "eqBool", column |-> column, bool |-> value.bool]>> >>
    ELSE <<>>

\* date-fns startOfDay and addDays (queries.ts:29, 277, 280)
startOfDay(t) == t - (t % DayTicks)
addDays(t, amount) == t + amount * DayTicks

\* queries.ts:280: lt(column, addDays(startOfDay(to), 1))
DateUpperBoundMutant(to) == startOfDay(to)
DateUpperBound(to) == addDays(startOfDay(to), 1)

\* queries.ts:268-286
DateConditions(column, value) ==
    IF value.kind = "object" /\ (value.from.has \/ value.to.has)
    THEN LET conditionList ==
                 (IF value.from.isDate
                  THEN <<[op |-> "gte", column |-> column,
                          n |-> startOfDay(value.from.t)]>>
                  ELSE <<>>)
                 \o
                 (IF value.to.isDate
                  THEN <<[op |-> "lt", column |-> column,
                          n |-> DateUpperBound(value.to.t)]>>
                  ELSE <<>>)
         IN IF Len(conditionList) > 0 THEN <<conditionList>> ELSE <<>>
    ELSE <<>>

\* queries.ts:208-289: one iteration of the loop
FilterConditions(filter) ==
    LET columnId == filter.id
        column == FilterColumn(columnId)
    IN IF column = "" THEN <<>>
       ELSE CASE columnId \in {"plateNumber", "normalizedPlate", "provinceName"} ->
                     TextConditions(column, filter.value)
              [] columnId \in {"ocrEngine", "typeVehicle", "source"} ->
                     EnumConditions(columnId, column, filter.value)
              [] columnId \in {"confidence", "processTime"} ->
                     RangeConditions(columnId, column, filter.value)
              [] columnId = "isValidFormat" ->
                     BooleanConditions(column, filter.value)
              [] columnId = "date" ->
                     DateConditions(column, filter.value)
              [] OTHER -> <<>>

RECURSIVE AllConditions(_)
AllConditions(fs) ==
    IF fs = <<>> THEN <<>>
    ELSE FilterConditions(Head(fs)) \o AllConditions(Tail(fs))

\* queries.ts:206-296
parseFiltersToDrizzle(fs) ==
    LET conditions == AllConditions(fs)
    IN IF Len(conditions) = 0 THEN UndefinedCondition
       ELSE [defined |-> TRUE, conditions |-> conditions]

(***************************************************************************)
(* GET /history (index.ts:136-254): from the validated query parameters to *)
(* the filter list.                                                        *)
(***************************************************************************)
\* index.ts:141-153: the filter keys of historyQuerySchema, in its order
QueryKeys ==
    <<"plateNumber", "normalizedPlate", "provinceName", "ocrEngine",
      "typeVehicle", "source", "isValidFormat", "confidenceMin",
      "confidenceMax", "processTimeMin", "processTimeMax", "dateFrom",
      "dateTo">>

\* The values the model tries for each parameter.
ParamChoices(key) ==
    CASE key = "plateNumber" -> << <<"a">>, <<>> >>
      [] key = "normalizedPlate" -> << <<"b">>, <<"_">> >>
      [] key = "provinceName" -> << <<"A">>, <<>> >>
      [] key = "ocrEngine" -> << <<"a">>, <<>> >>
      [] key = "typeVehicle" -> << <<"c", "a", "r">>, <<"a">> >>
      [] key = "source" -> << <<"u", "p", "l", "o", "a", "d">>, <<"b">> >>
      [] key = "isValidFormat" -> <<"true", "false">>
      [] key = "confidenceMin" -> <<0, 50, 51>>
      [] key = "confidenceMax" -> <<49, 50, 100>>
      [] key = "processTimeMin" -> <<0, 50>>
      [] key = "processTimeMax" -> <<50, 100>>
      [] key = "dateFrom" -> [i \in 1..(NumDays * DayTicks) |-> i - 1]
      [] key = "dateTo" -> [i \in 1..(NumDays * DayTicks) |-> i - 1]

EmptyQuery == [key \in Range(QueryKeys) |-> <<>>]

\* Queries with at most MaxParams parameters given.
Queries ==
    UNION {
        {[key \in Range(QueryKeys) |->
             IF key \in S THEN <<ParamChoices(key)[c[key]]>> ELSE <<>>] :
           c \in {d \in [S -> 1..(NumDays * DayTicks)] :
                     \A key \in S : d[key] <= Len(ParamChoices(key))}} :
        S \in {T \in SUBSET Range(QueryKeys) : Cardinality(T) <= MaxParams}}

\* index.ts:209-242: set one bound of the range entry `id`, creating it
MergeRange(fs, id, isMin, x) ==
    LET existing == {i \in 1..Len(fs) : fs[i].id = id}
    IN IF existing # {}
       THEN LET i == CHOOSE j \in existing : \A k \in existing : j <= k
            IN [fs EXCEPT ![i].value.elems[IF isMin THEN 1 ELSE 2] =
                              NumberElem(x)]
       ELSE Append(fs, [id |-> id,
                        value |-> ArrayValue(
                            IF isMin THEN <<NumberElem(x), Undefined>>
                            ELSE <<Undefined, NumberElem(x)>>)])

\* index.ts:194-248: the loop over Object.entries(validQueryParams)
RECURSIVE EntriesToFilters(_, _, _)
EntriesToFilters(q, i, fs) ==
    IF i > Len(QueryKeys) THEN fs
    ELSE LET key == QueryKeys[i]
             value == q[key]
         IN IF value = <<>> THEN EntriesToFilters(q, i + 1, fs)
            ELSE EntriesToFilters(q, i + 1,
                CASE key \in {"dateFrom", "dateTo"} -> fs
                  [] key = "confidenceMin" ->
                         MergeRange(fs, "confidence", TRUE, value[1])
                  [] key = "confidenceMax" ->
                         MergeRange(fs, "confidence", FALSE, value[1])
                  [] key = "processTimeMin" ->
                         MergeRange(fs, "processTime", TRUE, value[1])
                  [] key = "processTimeMax" ->
                         MergeRange(fs, "processTime", FALSE, value[1])
                  [] key = "isValidFormat" ->
                         Append(fs, [id |-> key,
                                     value |-> BooleanValue(value[1] = "true")])
                  [] OTHER ->
                         Append(fs, [id |-> key,
                                     value |-> StringValue(value[1])]))

\* index.ts:191-252
HistoryFilters(q) ==
    LET fs == EntriesToFilters(q, 1, <<>>)
    IN IF q.dateFrom # <<>> \/ q.dateTo # <<>>
       THEN Append(fs,
                [id |-> "date",
                 value |-> ObjectValue(
                     IF q.dateFrom # <<>> THEN DateProp(q.dateFrom[1]) ELSE NoProp,
                     IF q.dateTo # <<>> THEN DateProp(q.dateTo[1]) ELSE NoProp)])
       ELSE fs

(***************************************************************************)
(* Filter lists handed to parseFiltersToDrizzle directly: for each id,     *)
(* values it turns into a condition and values it ignores.                 *)
(***************************************************************************)
FilterEntries ==
    {[id |-> "plateNumber", value |-> v] :
        v \in {StringValue(<<>>), StringValue(<<"a">>), StringValue(<<"_">>),
               StringValue(<<"%">>), BooleanValue(TRUE)}}
    \cup {[id |-> "normalizedPlate", value |-> StringValue(<<"b">>)],
          [id |-> "provinceName", value |-> StringValue(<<>>)]}
    \cup {[id |-> "ocrEngine", value |-> v] :
        v \in {StringValue(<<>>), StringValue(<<"a">>)}}
    \cup {[id |-> "typeVehicle", value |-> v] :
        v \in {StringValue(<<>>), StringValue(<<"a">>),
               StringValue(<<"c", "a", "r">>)}}
    \cup {[id |-> "source", value |-> v] :
        v \in {NullValue, StringValue(<<"c", "a", "r">>),
               StringValue(<<"a", "p", "i">>)}}
    \cup {[id |-> "confidence", value |-> v] :
        v \in {ArrayValue(<<Undefined, Undefined>>),
               ArrayValue(<<NumberElem(50), Undefined>>),
               ArrayValue(<<Undefined, NumberElem(50)>>),
               ArrayValue(<<NumberElem(49), NumberElem(51)>>),
               ArrayValue(<<NumberElem(50)>>),
               NumberValue(50)}}
    \cup {[id |-> "processTime", value |-> v] :
        v \in {ArrayValue(<<Undefined, Undefined>>),
               ArrayValue(<<NumberElem(50), Undefined>>),
               ArrayValue(<<NumberElem(49), NumberElem(50)>>)}}
    \cup {[id |-> "isValidFormat", value |-> v] :
        v \in {BooleanValue(TRUE), BooleanValue(FALSE),
               StringValue(<<"a">>), NumberValue(1)}}
    \cup {[id |-> "date", value |-> v] :
        v \in {ObjectValue(NoProp, NoProp), ObjectValue(OtherProp, NoProp),
               ObjectValue(DateProp(1), NoProp),
               ObjectValue(NoProp, DateProp(DayTicks + 1)),
               ObjectValue(DateProp(DayTicks + 1), DateProp(DayTicks + 1)),
               StringValue(<<"a">>)}}
    \cup {[id |-> "unknown", value |-> StringValue(<<"a">>)],
          [id |-> "constructor", value |-> StringValue(<<"a">>)]}

FilterLists == SeqsUpTo(FilterEntries, MaxFilters)

NoQueryParams == [present |-> FALSE, query |-> EmptyQuery]

(***************************************************************************)
(* SpecFilter: a filter list, built by the route from a query or handed    *)
(* in by a caller, is compiled once.                                       *)
(***************************************************************************)
InitFilter ==
    /\ call = [p \in Calls |-> IdleCall]
    /\ detections = {}
    /\ licensePlates = {}
    /\ detectedPlateResults = {}
    /\ detectionsSeq = 0
    /\ licensePlatesSeq = 0
    /\ resultsSeq = 0
    /\ filterPc = "start"
    /\ queryParams \in
           {[present |-> TRUE, query |-> q] : q \in Queries}
           \cup {NoQueryParams}
    /\ filters = <<>>
    /\ whereCondition = UndefinedCondition
    /\ history = <<>>
    /\ sortCall = <<>>
    /\ filterOptions = <<>>
    /\ pages = <<>>
    /\ handler = <<>>

\* index.ts:191-252
BuildFilters ==
    /\ filterPc = "start"
    /\ queryParams.present
    /\ filters' = HistoryFilters(queryParams.query)
    /\ filterPc' = "parse"
    /\ UNCHANGED <<queryParams, whereCondition, history>>
    /\ UNCHANGED otherVars
    /\ UNCHANGED ingestVars

\* A caller of fetchDetectionHistory with a filter list of its own.
GivenFilters(fs) ==
    /\ filterPc = "start"
    /\ ~queryParams.present
    /\ filters' = fs
    /\ filterPc' = "parse"
    /\ UNCHANGED <<queryParams, whereCondition, history>>
    /\ UNCHANGED otherVars
    /\ UNCHANGED ingestVars

\* queries.ts:329
ParseFilters ==
    /\ filterPc = "parse"
    /\ whereCondition' = parseFiltersToDrizzle(filters)
    /\ filterPc' = "done"
    /\ UNCHANGED <<queryParams, filters, history>>
    /\ UNCHANGED otherVars
    /\ UNCHANGED ingestVars

NextFilter ==
    \/ BuildFilters
    \/ \E fs \in FilterLists : GivenFilters(fs)
    \/ ParseFilters

SpecFilter == InitFilter /\ [][NextFilter]_vars

(***************************************************************************)
(* Rows of the joined query on which the compiled conditions are tried:    *)
(* every stored confidence of ConfidenceSamples, with no Detection or with *)
(* a Detection at every instant and with every processing time of         *)
(* ProcessTimeSamples.                                                     *)
(***************************************************************************)
ConfidenceSamples == {0, 49, 50, 51, 100}
ProcessTimeSamples == {<<>>, <<0>>, <<49>>, <<50>>, <<100>>}

\* part_000:138-168
BaseRow ==
    [id |-> 1, plateNumber |-> <<"A", "b">>, normalizedPlate |-> <<>>,
     confidenceDetection |-> 50, ocrEngineUsed |-> << <<"a">> >>,
     typeVehicle |-> << <<"c", "a", "r">> >>, provinceName |-> <<>>,
     isValidFormat |-> <<TRUE>>, detection |-> <<>>]

\* part_000:101-123
DetectionSamples ==
    {[id |-> 1, source |-> << <<"a", "p", "i">> >>, detectionTime |-> t,
      processTimeMs |-> pt] : t \in Instants, pt \in ProcessTimeSamples}

SampleRows ==
    {[BaseRow EXCEPT !.confidenceDetection = c, !.detection = d] :
        c \in ConfidenceSamples,
        d \in {<<>>} \cup {<<x>> : x \in DetectionSamples}}

(***************************************************************************)
(* Properties of the filter compiler, checked under SpecFilter.            *)
(***************************************************************************)
\* The ids of the closed set of filterable fields.
RecognizedIds ==
    {"plateNumber", "normalizedPlate", "provinceName", "ocrEngine",
     "typeVehicle", "source", "isValidFormat", "confidence", "processTime",
     "date"}

\* An entry that is to be ignored: unrecognized id, empty string,
\* out-of-enumeration value, non-boolean validity value, range with neither
\* bound numeric.
IgnoredEntry(f) ==
    \/ f.id \notin RecognizedIds
    \/ f.value.kind = "string" /\ f.value.str = <<>>
    \/ /\ f.id = "typeVehicle"
       /\ f.value.kind = "string"
       /\ f.value.str \notin vehicleCategoryEnum
    \/ /\ f.id = "source"
       /\ f.value.kind = "string"
       /\ f.value.str \notin detectionSourceEnum
    \/ f.id = "isValidFormat" /\ f.value.kind # "boolean"
    \/ /\ f.id \in {"confidence", "processTime"}
       /\ f.value.kind = "array"
       /\ Len(f.value.elems) = 2
       /\ ~f.value.elems[1].isNumber
       /\ ~f.value.elems[2].isNumber

\* C7: for the empty list and for every list all of whose entries are to be
\* ignored, parseFiltersToDrizzle returns undefined, which matches every row.
C7_IgnoredEntriesGiveNoFilter ==
    (filterPc = "done" /\ \A i \in 1..Len(filters) : IgnoredEntry(filters[i]))
        => /\ ~whereCondition.defined
           /\ \A row \in SampleRows : Matches(whereCondition, row)

\* C7 witness: a compiled list of two different ignored entries, one of them
\* a typeVehicle value outside the enumeration.
C7_Witness ==
    /\ filterPc = "done"
    /\ Len(filters) = 2
    /\ filters[1] # filters[2]
    /\ \A i \in 1..2 : IgnoredEntry(filters[i])
    /\ \E i \in 1..2 :
          /\ filters[i].id = "typeVehicle"
          /\ filters[i].value.kind = "string"
          /\ filters[i].value.str # <<>>
    /\ ~whereCondition.defined

RangeKeys ==
    {"confidenceMin", "confidenceMax", "processTimeMin", "processTimeMax"}

\* The processing time of the row's Detection, <<>> when there is none.
ProcessTimeOf(row) ==
    IF row.detection = <<>> THEN <<>> ELSE row.detection[1].processTimeMs

\* Percent bounds lo, hi (nullable) against a stored confidence, which the
\* model keeps as 100 * c: lo / 100 <= c and c <= hi / 100, both inclusive.
ConfidenceWithin(lo, hi, row) ==
    /\ lo # <<>> => lo[1] <= row.confidenceDetection
    /\ hi # <<>> => row.confidenceDetection <= hi[1]

\* Millisecond bounds lo, hi (nullable) against the processing time, unscaled.
ProcessTimeWithin(lo, hi, row) ==
    /\ lo # <<>> => (ProcessTimeOf(row) # <<>> /\ lo[1] <= ProcessTimeOf(row)[1])
    /\ hi # <<>> => (ProcessTimeOf(row) # <<>> /\ ProcessTimeOf(row)[1] <= hi[1])

\* The whole number an array element holds, as a nullable value.
ElemBound(e) == IF e.isNumber THEN <<e.n \div 100>> ELSE <<>>

\* C8: a query that gives only range parameters matches exactly the rows
\* whose stored confidence c has confidenceMin / 100 <= c <= confidenceMax /
\* 100 and whose processing time t has processTimeMin <= t <= processTimeMax,
\* each bound applying only if given; the same holds of a single range entry
\* [min, max] handed to the compiler.
C8_ConfidenceRangeInPercent ==
    filterPc = "done" =>
        /\ (/\ queryParams.present
            /\ \A key \in Range(QueryKeys) \ RangeKeys :
                  queryParams.query[key] = <<>>)
           => \A row \in SampleRows :
                  Matches(whereCondition, row) <=>
                      /\ ConfidenceWithin(queryParams.query.confidenceMin,
                                          queryParams.query.confidenceMax, row)
                      /\ ProcessTimeWithin(queryParams.query.processTimeMin,
                                           queryParams.query.processTimeMax, row)
        /\ (/\ ~queryParams.present
            /\ Len(filters) = 1
            /\ filters[1].id \in {"confidence", "processTime"}
            /\ filters[1].value.kind = "array"
            /\ Len(filters[1].value.elems) = 2)
           => \A row \in SampleRows :
                  Matches(whereCondition, row) <=>
                      IF filters[1].id = "confidence"
                      THEN ConfidenceWithin(ElemBound(filters[1].value.elems[1]),
                                            ElemBound(filters[1].value.elems[2]),
                                            row)
                      ELSE ProcessTimeWithin(ElemBound(filters[1].value.elems[1]),
                                             ElemBound(filters[1].value.elems[2]),
                                             row)

\* C8 witness: the query confidenceMin=50 alone matches a row stored with
\* confidence 0.50 and one with 1.00, and not one with 0.49.
C8_Witness ==
    /\ filterPc = "done"
    /\ queryParams.present
    /\ queryParams.query.confidenceMin = <<50>>
    /\ \A key \in Range(QueryKeys) \ {"confidenceMin"} :
          queryParams.query[key] = <<>>
    /\ Matches(whereCondition, [BaseRow EXCEPT !.confidenceDetection = 50])
    /\ Matches(whereCondition, [BaseRow EXCEPT !.confidenceDetection = 100])
    /\ ~Matches(whereCondition, [BaseRow EXCEPT !.confidenceDetection = 49])

\* The calendar day of an instant.
DayOf(t) == t \div DayTicks

\* Dates from, to against the row's detection time t:
\* start of from's day <= t < start of to's day + 1 day.
WithinDays(from, to, row) ==
    /\ row.detection # <<>>
    /\ DayOf(from) * DayTicks <= row.detection[1].detectionTime
    /\ row.detection[1].detectionTime < (DayOf(to) + 1) * DayTicks

\* C9: a date filter {from, to}, alone in the list, matches exactly the rows whose detection
\* time lies from the start of from's day up to, not including, the start of
\* the day after to's day; with from and to on one day D, exactly the rows
\* of day D.
C9_DateRangeCoversWholeDays ==
    filterPc = "done" =>
        \A from, to \in Instants :
            (\/ /\ queryParams.present
                /\ queryParams.query.dateFrom = <<from>>
                /\ queryParams.query.dateTo = <<to>>
                /\ \A key \in Range(QueryKeys) \ {"dateFrom", "dateTo"} :
                      queryParams.query[key] = <<>>
             \/ /\ ~queryParams.present
                /\ Len(filters) = 1
                /\ filters[1] = [id |-> "date",
                                 value |-> ObjectValue(DateProp(from),
                                                       DateProp(to))])
            => \A row \in SampleRows :
                   /\ Matches(whereCondition, row) <=> WithinDays(from, to, row)
                   /\ DayOf(from) = DayOf(to) =>
                          (Matches(whereCondition, row) <=>
                               /\ row.detection # <<>>
                               /\ DayOf(row.detection[1].detectionTime)
                                      = DayOf(from))

\* C9 witness: the query dateFrom = dateTo = an instant of day 1 matches the
\* rows at the first and the last instant of day 1, and neither the row at
\* the last instant of day 0 nor the one at the first instant of day 2.
C9_Witness ==
    /\ filterPc = "done"
    /\ queryParams.present
    /\ queryParams.query.dateFrom = <<DayTicks + 1>>
    /\ queryParams.query.dateTo = <<DayTicks + 1>>
    /\ \A key \in Range(QueryKeys) \ {"dateFrom", "dateTo"} :
          queryParams.query[key] = <<>>
    /\ \A x \in DetectionSamples :
          (x.detectionTime \in {DayTicks, 2 * DayTicks - 1}
              => Matches(whereCondition, [BaseRow EXCEPT !.detection = <<x>>]))
          /\ (x.detectionTime \in {DayTicks - 1, 2 * DayTicks}
              => ~Matches(whereCondition, [BaseRow EXCEPT !.detection = <<x>>]))

\* Rows that differ in their text columns.
TextSamples == {<<"A", "b">>, <<"a", "_">>, <<"%">>, <<"B">>}

TextRows ==
    {[BaseRow EXCEPT !.plateNumber = t, !.normalizedPlate = n,
                     !.provinceName = n] :
        t \in TextSamples, n \in {<<>>} \cup {<<u>> : u \in TextSamples}}

\* v occurs in text as a run of characters, letter case aside.
ContainsIgnoreCase(text, v) ==
    \E i \in 0..(Len(text) - Len(v)) :
        LowerAll(SubSeq(text, i + 1, i + Len(v))) = LowerAll(v)

\* C17: a string filter on plateNumber, normalizedPlate or provinceName with
\* a non-empty value v matches exactly the rows whose column value contains
\* v as a literal substring, letter case aside, also for v with the
\* characters % and _; an empty string adds no condition.
C17_LiteralSubstring ==
    (/\ filterPc = "done"
     /\ Len(filters) = 1
     /\ filters[1].id \in {"plateNumber", "normalizedPlate", "provinceName"}
     /\ filters[1].value.kind = "string")
    => IF filters[1].value.str = <<>> THEN ~whereCondition.defined
       ELSE \A row \in TextRows :
                Matches(whereCondition, row) <=>
                    LET v == TextColumn(row, filterColumnMap[filters[1].id])
                    IN /\ v # <<>>
                       /\ ContainsIgnoreCase(v[1], filters[1].value.str)

\* Rows that differ in their OCR engine, vehicle category and source.
EnumRows ==
    {[BaseRow EXCEPT !.ocrEngineUsed = e, !.typeVehicle = v, !.detection = d] :
        e \in {<<>>, << <<"a">> >>, << <<"A">> >>},
        v \in {<<>>, << <<"c", "a", "r">> >>, << <<"b", "u", "s">> >>},
        d \in {<<>>} \cup
              {<<[id |-> 1, source |-> src, detectionTime |-> 0,
                  processTimeMs |-> <<50>>]>> :
                  src \in {<<>>, << <<"a", "p", "i">> >>,
                           << <<"u", "p", "l", "o", "a", "d">> >>}}}

\* The list fs without its i-th entry.
Without(fs, i) == SubSeq(fs, 1, i - 1) \o SubSeq(fs, i + 1, Len(fs))

\* The labels of the enumeration of a filter id; any string for ocrEngine.
EnumLabels(id) ==
    IF id = "typeVehicle"
    THEN {<<"c", "a", "r">>, <<"t", "r", "u", "c", "k">>,
          <<"m", "o", "t", "o", "r", "c", "y", "c", "l", "e">>,
          <<"b", "u", "s">>, <<"s", "p", "e", "c", "i", "a", "l">>,
          <<"o", "t", "h", "e", "r">>}
    ELSE {<<"u", "p", "l", "o", "a", "d">>, <<"c", "a", "m", "e", "r", "a">>,
          <<"i", "m", "p", "o", "r", "t">>, <<"a", "p", "i">>}

\* The value of the column of an enumerated filter id in a row.
EnumColumnOf(row, id) ==
    IF id = "ocrEngine" THEN row.ocrEngineUsed
    ELSE IF id = "typeVehicle" THEN row.typeVehicle
    ELSE IF row.detection = <<>> THEN <<>>
    ELSE row.detection[1].source

\* C18: a typeVehicle or source value outside its enumeration adds no
\* condition, so that the remaining filters alone decide the result; a value
\* of the enumeration, and any non-empty ocrEngine value, adds the condition
\* that the column equals the value exactly.
C18_EnumFilters ==
    filterPc = "done" =>
        \A i \in 1..Len(filters) :
            (/\ filters[i].id \in {"ocrEngine", "typeVehicle", "source"}
             /\ filters[i].value.kind = "string"
             /\ filters[i].value.str # <<>>)
            => LET rest == parseFiltersToDrizzle(Without(filters, i))
                   id == filters[i].id
                   str == filters[i].value.str
               IN \A row \in EnumRows :
                      Matches(whereCondition, row) <=>
                          /\ Matches(rest, row)
                          /\ (id = "ocrEngine" \/ str \in EnumLabels(id))
                                 => EnumColumnOf(row, id) = <<str>>

\* C18 witness: the list [typeVehicle "a", source "api"] has compiled to the
\* one condition source = api, which matches a bus detected through the api
\* and no row of another source.
C18_Witness ==
    /\ filterPc = "done"
    /\ Len(filters) = 2
    /\ filters[1] = [id |-> "typeVehicle", value |-> StringValue(<<"a">>)]
    /\ filters[2] = [id |-> "source", value |-> StringValue(<<"a", "p", "i">>)]
    /\ whereCondition.defined
    /\ Len(whereCondition.conditions) = 1
    /\ \E row \in EnumRows :
           /\ row.typeVehicle = << <<"b", "u", "s">> >>
           /\ Matches(whereCondition, row)
    /\ \A row \in EnumRows :
           Matches(whereCondition, row)
               => row.detection[1].source = << <<"a", "p", "i">> >>

(***************************************************************************)
(* The ordering compiler, parseSortingToDrizzle, and the page and count    *)
(* queries of fetchDetectionHistory (queries.ts:191-391).                  *)
(***************************************************************************)
MaxRows == 3
MaxPageIndex == 2
MaxPageSize == 2
MaxSorts == 1

\* queries.ts:191-201: sortColumnMap
sortColumnMap ==
    [plateNumber |-> "plateNumber",
     confidence |-> "confidenceDetection",
     date |-> "detectionTime",
     provinceName |-> "provinceName",
     isValidFormat |-> "isValidFormat",
     ocrEngine |-> "ocrEngineUsed",
     normalizedPlate |-> "normalizedPlate",
     source |-> "source",
     processTime |-> "processTimeMs"]

\* queries.ts:307: sortColumnMap[sort.id], "" for undefined. sortColumnMap
\* is a plain object: for a key it inherits from Object.prototype the lookup
\* gives a truthy value that is no column.
SortColumn(id) ==
    IF id \in DOMAIN sortColumnMap THEN sortColumnMap[id]
    ELSE IF id \in ObjectPrototypeKeys THEN "Object.prototype"
    ELSE ""

\* queries.ts:303, 309: desc(schema.detections.detectionTime)
DefaultOrder == [column |-> "detectionTime", desc |-> TRUE]

\* queries.ts:301-315
parseSortingToDrizzle(sorting) ==
    IF Len(sorting) = 0 THEN <<DefaultOrder>>
    ELSE [i \in 1..Len(sorting) |->
             LET column == SortColumn(sorting[i].id)
             IN IF column = "" THEN DefaultOrder
                ELSE [column |-> column, desc |-> sorting[i].desc]]

\* The order of characters in a text column.
CharRank(c) ==
    CASE c = "A" -> 1 [] c = "B" -> 2 [] c = "a" -> 3 [] c = "b" -> 4
      [] OTHER -> 5

RECURSIVE TextLess(_, _)
TextLess(a, b) ==
    IF b = <<>> THEN FALSE
    ELSE IF a = <<>> THEN TRUE
    ELSE IF Head(a) = Head(b) THEN TextLess(Tail(a), Tail(b))
    ELSE CharRank(Head(a)) < CharRank(Head(b))

\* part_000:15-20: an enum column is ordered by the place of the label in
\* the declaration.
SourceRank(str) ==
    CASE str = <<"u", "p", "l", "o", "a", "d">> -> 1
      [] str = <<"c", "a", "m", "e", "r", "a">> -> 2
      [] str = <<"i", "m", "p", "o", "r", "t">> -> 3
      [] OTHER -> 4

\* row1 sorts strictly before row2 by `column` ascending; NULL sorts as
\* larger than every value.
Less(row1, row2, column) ==
    IF column \in {"confidenceDetection", "processTimeMs", "detectionTime"}
    THEN LET a == NumericColumn(row1, column)
             b == NumericColumn(row2, column)
         IN a # <<>> /\ (b = <<>> \/ a[1] < b[1])
    ELSE IF column = "isValidFormat"
    THEN /\ row1.isValidFormat # <<>>
         /\ \/ row2.isValidFormat = <<>>
            \/ ~row1.isValidFormat[1] /\ row2.isValidFormat[1]
    ELSE LET a == TextColumn(row1, column)
             b == TextColumn(row2, column)
         IN /\ a # <<>>
            /\ \/ b = <<>>
               \/ IF column = "source"
                  THEN SourceRank(a[1]) < SourceRank(b[1])
                  ELSE TextLess(a[1], b[1])

\* asc(column) / desc(column)
ClauseBefore(row1, row2, clause) ==
    IF clause.desc THEN Less(row2, row1, clause.column)
    ELSE Less(row1, row2, clause.column)

\* ORDER BY clause_1, ..., clause_n: row1 must come before row2.
RECURSIVE Before(_, _, _)
Before(row1, row2, orderBy) ==
    /\ orderBy # <<>>
    /\ \/ ClauseBefore(row1, row2, Head(orderBy))
       \/ /\ ~ClauseBefore(row2, row1, Head(orderBy))
          /\ Before(row1, row2, Tail(orderBy))

\* The orders in which the database may return the rows S under ORDER BY:
\* rows that compare equal come in any order.
Orderings(S, orderBy) ==
    {o \in [1..Cardinality(S) -> S] :
        /\ \A i, j \in DOMAIN o : i # j => o[i] # o[j]
        /\ \A i, j \in DOMAIN o : i < j => ~Before(o[j], o[i], orderBy)}

\* queries.ts:343-348: .where(whereCondition)
Selected(store, where) == {row \in store : Matches(where, row)}

\* queries.ts:326-327
OffsetMutant(pagination) == pagination.pageIndex
Offset(pagination) == pagination.pageIndex * pagination.pageSize
LimitMutant(pagination) == pagination.pageSize + 1
Limit(pagination) == pagination.pageSize

\* LIMIT limit OFFSET offset of an ordered result
Page(order, offset, limit) ==
    LET last == IF offset + limit < Len(order) THEN offset + limit
                ELSE Len(order)
    IN [k \in 1..(IF last > offset THEN last - offset ELSE 0) |->
           order[offset + k]]

(***************************************************************************)
(* SpecHistory: one call of fetchDetectionHistory on a store nobody writes *)
(* to. The page query and the count query run in either order              *)
(* (Promise.all), then the call returns.                                   *)
(***************************************************************************)
\* part_000:138-168: row `id` of detected_plate_results. The first row is of
\* a detection with an empty plate number, hence without a LicensePlate; the
\* others are of the plate "Ab".
StoredRow(id, a) ==
    [id |-> id,
     detectionId |-> id,
     licensePlateId |-> IF id = 1 THEN <<>> ELSE <<1>>,
     plateNumber |-> IF id = 1 THEN <<>> ELSE BaseRow.plateNumber,
     normalizedPlate |-> BaseRow.normalizedPlate,
     confidenceDetection |-> a.confidence,
     ocrEngineUsed |-> BaseRow.ocrEngineUsed,
     typeVehicle |-> BaseRow.typeVehicle,
     provinceName |-> BaseRow.provinceName,
     isValidFormat |-> BaseRow.isValidFormat]

\* part_000:101-123: the row of detections that row `id` refers to.
StoredDetection(id, t) ==
    [id |-> id, source |-> << <<"a", "p", "i">> >>, detectionTime |-> t,
     processTimeMs |-> <<50>>]

\* part_000:85-95
StoredLicensePlate == [id |-> 1, plateNumber |-> BaseRow.plateNumber]

\* detection is <<>> for a result whose Detection row is not there (the
\* joined row's `detection: DetectionSelect | null`, queries.ts:168-171).
RowAttributes ==
    [confidence : {49, 51}, detection : {<<>>, <<0>>, <<DayTicks>>}]

Stores ==
    UNION {{[detectedPlateResults |-> {StoredRow(id, a[id]) : id \in 1..n},
             detections |->
                 {StoredDetection(id, a[id].detection[1]) :
                     id \in {k \in 1..n : a[k].detection # <<>>}},
             licensePlates |-> IF n >= 2 THEN {StoredLicensePlate} ELSE {}] :
               a \in [1..n -> RowAttributes]} :
              n \in 0..MaxRows}

\* LEFT JOIN detections ON detected_plate_results.detectionId = detections.id
LeftJoinDetections(rows, table) ==
    UNION {LET found == {d \in table : d.id = row.detectionId}
           IN IF found = {} THEN {row @@ ("detection" :> <<>>)}
              ELSE {row @@ ("detection" :> <<d>>) : d \in found} :
              row \in rows}

\* INNER JOIN detections ON ...
InnerJoinDetections(rows, table) ==
    UNION {{row @@ ("detection" :> <<d>>) :
               d \in {e \in table : e.id = row.detectionId}} : row \in rows}

\* LEFT JOIN license_plates
\*   ON detected_plate_results.licensePlateId = license_plates.id
LeftJoinLicensePlates(rows, table) ==
    UNION {LET found == {l \in table : row.licensePlateId = <<l.id>>}
           IN IF found = {} THEN {row @@ ("licensePlate" :> <<>>)}
              ELSE {row @@ ("licensePlate" :> <<l>>) : l \in found} :
              row \in rows}

\* queries.ts:332-342: baseQuery
BaseQuery(store) ==
    LeftJoinLicensePlates(
        LeftJoinDetections(store.detectedPlateResults, store.detections),
        store.licensePlates)

\* queries.ts:350-356: the FROM clause of countQuery
CountFromMutant(store) ==
    InnerJoinDetections(store.detectedPlateResults, store.detections)
CountFrom(store) ==
    LeftJoinDetections(store.detectedPlateResults, store.detections)

Paginations == [pageIndex : 0..MaxPageIndex, pageSize : 1..MaxPageSize]

\* index.ts:181-189: ApiSort
ApiSorts == [id : {"confidence", "date", "typeVehicle"}, desc : BOOLEAN]
Sortings == SeqsUpTo(ApiSorts, MaxSorts)

HistoryFilterLists ==
    {<<>>,
     <<[id |-> "confidence",
        value |-> ArrayValue(<<NumberElem(50), Undefined>>)]>>,
     <<[id |-> "date",
        value |-> ObjectValue(DateProp(0), DateProp(0))]>>}

NoResult == [returned |-> FALSE, rows |-> <<>>, totalRowCount |-> 0]

InitHistory ==
    /\ call = [p \in Calls |-> IdleCall]
    /\ detections = {}
    /\ licensePlates = {}
    /\ detectedPlateResults = {}
    /\ detectionsSeq = 0
    /\ licensePlatesSeq = 0
    /\ resultsSeq = 0
    /\ filterPc = "unused"
    /\ queryParams = <<>>
    /\ filters = <<>>
    /\ whereCondition = <<>>
    /\ history \in
           [pc : {"querying"}, store : Stores, pagination : Paginations,
            sorting : Sortings, filters : HistoryFilterLists,
            query : {<<>>}, countQuery : {<<>>}, ret : {NoResult}]
    /\ sortCall = <<>>
    /\ filterOptions = <<>>
    /\ pages = <<>>
    /\ handler = <<>>

\* queries.ts:343-348: the page query
PageQuery ==
    /\ history.pc = "querying"
    /\ history.query = <<>>
    /\ \E order \in Orderings(
                       Selected(BaseQuery(history.store),
                                parseFiltersToDrizzle(history.filters)),
                       parseSortingToDrizzle(history.sorting)) :
           history' = [history EXCEPT
                          !.query = <<Page(order, Offset(history.pagination),
                                           Limit(history.pagination))>>]
    /\ UNCHANGED filterVars
    /\ UNCHANGED otherVars
    /\ UNCHANGED ingestVars

\* queries.ts:350-357: the count query
CountQuery ==
    /\ history.pc = "querying"
    /\ history.countQuery = <<>>
    /\ history' = [history EXCEPT
                      !.countQuery =
                          <<Cardinality(
                                Selected(CountFrom(history.store),
                                         parseFiltersToDrizzle(history.filters)))>>]
    /\ UNCHANGED filterVars
    /\ UNCHANGED otherVars
    /\ UNCHANGED ingestVars

\* queries.ts:362-386: both queries have answered
ReturnHistory ==
    /\ history.pc = "querying"
    /\ history.query # <<>>
    /\ history.countQuery # <<>>
    /\ history' = [history EXCEPT
                      !.pc = "done",
                      !.ret = [returned |-> TRUE,
                               rows |-> history.query[1],
                               totalRowCount |-> history.countQuery[1]]]
    /\ UNCHANGED filterVars
    /\ UNCHANGED otherVars
    /\ UNCHANGED ingestVars

NextHistory ==
    \/ PageQuery
    \/ CountQuery
    \/ ReturnHistory

SpecHistory == InitHistory /\ [][NextHistory]_vars

\* The rows of the store that match the call's filters.
MatchingRows ==
    Selected(BaseQuery(history.store), parseFiltersToDrizzle(history.filters))

\* C10: on a store nobody writes to, with N rows matching the filters,
\* fetchDetectionHistory with pageIndex i and pageSize s returns
\* min(s, max(0, N - i*s)) rows, which are the rows at positions i*s ..
\* i*s+s-1 of the ordered result, and totalRowCount = N, on every page.
C10_PageAndTotal ==
    history.pc = "done" =>
        LET N == Cardinality(MatchingRows)
            i == history.pagination.pageIndex
            s == history.pagination.pageSize
            left == IF N - i * s > 0 THEN N - i * s ELSE 0
            rows == history.ret.rows
        IN /\ Len(rows) = IF s < left THEN s ELSE left
           /\ history.ret.totalRowCount = N
           /\ \E order \in Orderings(MatchingRows,
                                     parseSortingToDrizzle(history.sorting)) :
                  \A k \in 1..Len(rows) : rows[k] = order[i * s + k]

\* C10 witness: with three matching rows and pages of two, page 1 has
\* returned one row and a total of three.
C10_Witness ==
    /\ history.pc = "done"
    /\ Cardinality(MatchingRows) = 3
    /\ history.pagination = [pageIndex |-> 1, pageSize |-> 2]
    /\ Len(history.ret.rows) = 1
    /\ history.ret.totalRowCount = 3

\* C11: in a store nobody writes to, totalRowCount is the number of rows the
\* page query returns without limit and offset (the count query has no
\* LicensePlate join), also when a filter is on a Detection column and the
\* Detection of a row is missing.
C11_CountMatchesPageQuery ==
    history.pc = "done" =>
        \A order \in Orderings(MatchingRows,
                               parseSortingToDrizzle(history.sorting)) :
            history.ret.totalRowCount = Len(order)

\* C11 witness: under a date filter, a store with a row whose Detection is
\* missing, a row without LicensePlate and a row with one has been counted.
C11_Witness ==
    /\ history.pc = "done"
    /\ Len(history.filters) = 1
    /\ history.filters[1].id = "date"
    /\ \E row \in BaseQuery(history.store) : row.detection = <<>>
    /\ \E row \in BaseQuery(history.store) : row.licensePlate = <<>>
    /\ \E row \in BaseQuery(history.store) : row.licensePlate # <<>>
    /\ history.ret.totalRowCount >= 1

(***************************************************************************)
(* SpecSorting: a sort list, built by the route from sortId / sortDesc or  *)
(* handed in by a caller, is compiled once by parseSortingToDrizzle.       *)
(***************************************************************************)
MaxSortSpecs == 2

\* index.ts:139: sortId is any string
SortIds ==
    {"plateNumber", "confidence", "date", "provinceName", "isValidFormat",
     "ocrEngine", "normalizedPlate", "source", "processTime",
     "typeVehicle", "unknown", "constructor", ""}

\* index.ts:139-140: sortId and sortDesc, each optional
SortParams ==
    [present : {TRUE},
     sortId : {<<>>} \cup {<<id>> : id \in SortIds},
     sortDesc : {<<>>, <<"true">>, <<"false">>}]

NoSortParams == [present |-> FALSE, sortId |-> <<>>, sortDesc |-> <<>>]

\* index.ts:180-189
RouteSorting(q) ==
    IF q.sortId # <<>> /\ q.sortId[1] # ""
    THEN <<[id |-> q.sortId[1],
            desc |-> \/ q.sortDesc = <<"true">>
                     \/ q.sortId[1] = "date" /\ q.sortDesc = <<>>]>>
    ELSE <<>>

SortLists == SeqsUpTo([id : SortIds \ {""}, desc : BOOLEAN], MaxSortSpecs)

InitSorting ==
    /\ call = [p \in Calls |-> IdleCall]
    /\ detections = {}
    /\ licensePlates = {}
    /\ detectedPlateResults = {}
    /\ detectionsSeq = 0
    /\ licensePlatesSeq = 0
    /\ resultsSeq = 0
    /\ filterPc = "unused"
    /\ queryParams = <<>>
    /\ filters = <<>>
    /\ whereCondition = <<>>
    /\ history = <<>>
    /\ sortCall \in [pc : {"start"}, params : SortParams \cup {NoSortParams},
                     sorting : {<<>>}, orderByCondition : {<<>>}]
    /\ filterOptions = <<>>
    /\ pages = <<>>
    /\ handler = <<>>

\* index.ts:180-189
BuildSorting ==
    /\ sortCall.pc = "start"
    /\ sortCall.params.present
    /\ sortCall' = [sortCall EXCEPT !.pc = "parse",
                                    !.sorting = RouteSorting(sortCall.params)]
    /\ UNCHANGED <<filterVars, history, filterOptions, pages, handler>>
    /\ UNCHANGED ingestVars

\* A caller of fetchDetectionHistory with a sort list of its own.
GivenSorting(sorting) ==
    /\ sortCall.pc = "start"
    /\ ~sortCall.params.present
    /\ sortCall' = [sortCall EXCEPT !.pc = "parse", !.sorting = sorting]
    /\ UNCHANGED <<filterVars, history, filterOptions, pages, handler>>
    /\ UNCHANGED ingestVars

\* queries.ts:330
ParseSorting ==
    /\ sortCall.pc = "parse"
    /\ sortCall' = [sortCall EXCEPT
                       !.pc = "done",
                       !.orderByCondition =
                           parseSortingToDrizzle(sortCall.sorting)]
    /\ UNCHANGED <<filterVars, history, filterOptions, pages, handler>>
    /\ UNCHANGED ingestVars

NextSorting ==
    \/ BuildSorting
    \/ \E sorting \in SortLists : GivenSorting(sorting)
    \/ ParseSorting

SpecSorting == InitSorting /\ [][NextSorting]_vars

\* The closed set of sortable fields.
SortableIds ==
    {"plateNumber", "normalizedPlate", "confidence", "date", "provinceName",
     "isValidFormat", "ocrEngine", "source", "processTime"}

\* C12: parseSortingToDrizzle yields one ordering term per requested sort
\* spec, in the given order: a recognized id yields its column in the
\* requested direction, an unrecognized id yields detection time descending
\* at that position; an empty list yields the single term detection time
\* descending.
C12_OneTermPerSortSpec ==
    sortCall.pc = "done" =>
        LET sorting == sortCall.sorting
            orderBy == sortCall.orderByCondition
        IN IF sorting = <<>> THEN orderBy = <<DefaultOrder>>
           ELSE /\ Len(orderBy) = Len(sorting)
                /\ \A i \in 1..Len(sorting) :
                       orderBy[i] =
                           IF sorting[i].id \in SortableIds
                           THEN [column |-> sortColumnMap[sorting[i].id],
                                 desc |-> sorting[i].desc]
                           ELSE DefaultOrder

(***************************************************************************)
(* SpecOptions: one call of getFilterOptions (queries.ts:396-455) on a     *)
(* store nobody writes to. The three SELECT DISTINCT queries answer in any *)
(* order (Promise.all), then the call returns the three lists.             *)
(***************************************************************************)
MaxOptionRows == 2

\* part_000:22-29: an enum column is ordered by the place of the label in
\* the declaration.
VehicleRank(str) ==
    CASE str = <<"c", "a", "r">> -> 1
      [] str = <<"t", "r", "u", "c", "k">> -> 2
      [] str = <<"m", "o", "t", "o", "r", "c", "y", "c", "l", "e">> -> 3
      [] str = <<"b", "u", "s">> -> 4
      [] str = <<"s", "p", "e", "c", "i", "a", "l">> -> 5
      [] OTHER -> 6

EngineLess(a, b) == TextLess(a, b)
VehicleLess(a, b) == VehicleRank(a) < VehicleRank(b)
SourceLess(a, b) == SourceRank(a) < SourceRank(b)

\* The ascending order of a column: of a text column by its text, of an enum
\* column by the declaration of its labels.
ColumnLess(column, a, b) ==
    CASE column = "ocrEngineUsed" -> EngineLess(a, b)
      [] column = "typeVehicle" -> VehicleLess(a, b)
      [] OTHER -> SourceLess(a, b)

\* SELECT DISTINCT ... ORDER BY column ASC over the values S of the column
OrderedBy(S, column) ==
    CHOOSE order \in [1..Cardinality(S) -> S] :
        /\ \A i, j \in DOMAIN order : i # j => order[i] # order[j]
        /\ \A i, j \in DOMAIN order :
               i < j => ColumnLess(column, order[i], order[j])

\* part_000:152-153: ocrEngineUsed and typeVehicle of a row, each nullable
OptionRows ==
    [ocrEngineUsed : {<<>>, << <<>> >>, << <<"a">> >>, << <<"B">> >>},
     typeVehicle : {<<>>, << <<"c", "a", "r">> >>, << <<"b", "u", "s">> >>,
                    << <<"t", "r", "u", "c", "k">> >>}]

\* part_000:103: source of a Detection
OptionSources ==
    {<<>>, << <<"u", "p", "l", "o", "a", "d">> >>,
     << <<"c", "a", "m", "e", "r", "a">> >>, << <<"a", "p", "i">> >>}

OptionStores ==
    [detectedPlateResults : SeqsUpTo(OptionRows, MaxOptionRows),
     detections : SeqsUpTo(OptionSources, MaxOptionRows)]

\* The non-null values of a column, given as the sequence of its cells.
NotNull(cells) == {cells[i][1] : i \in {k \in 1..Len(cells) : cells[k] # <<>>}}

\* queries.ts:403-412
EnginesQuery(store) ==
    LET cells == [i \in 1..Len(store.detectedPlateResults) |->
                     store.detectedPlateResults[i].ocrEngineUsed]
    IN OrderedBy(NotNull(cells) \ {<<>>}, "ocrEngineUsed")

\* queries.ts:413-417
TypesQuery(store) ==
    LET cells == [i \in 1..Len(store.detectedPlateResults) |->
                     store.detectedPlateResults[i].typeVehicle]
    IN OrderedBy(NotNull(cells), "typeVehicle")

\* queries.ts:418-422
SourcesQuery(store) == OrderedBy(NotNull(store.detections), "source")

NoOptions == [returned |-> FALSE, ocrEngines |-> <<>>, vehicleTypes |-> <<>>,
              sources |-> <<>>]

InitOptions ==
    /\ call = [p \in Calls |-> IdleCall]
    /\ detections = {}
    /\ licensePlates = {}
    /\ detectedPlateResults = {}
    /\ detectionsSeq = 0
    /\ licensePlatesSeq = 0
    /\ resultsSeq = 0
    /\ filterPc = "unused"
    /\ queryParams = <<>>
    /\ filters = <<>>
    /\ whereCondition = <<>>
    /\ history = <<>>
    /\ sortCall = <<>>
    /\ filterOptions \in
           [pc : {"querying"}, store : OptionStores, enginesResult : {<<>>},
            typesResult : {<<>>}, sourcesResult : {<<>>}, ret : {NoOptions}]
    /\ pages = <<>>
    /\ handler = <<>>

EnginesAnswer ==
    /\ filterOptions.pc = "querying"
    /\ filterOptions.enginesResult = <<>>
    /\ filterOptions' = [filterOptions EXCEPT
                            !.enginesResult =
                                <<EnginesQuery(filterOptions.store)>>]
    /\ UNCHANGED <<filterVars, history, sortCall, pages, handler>>
    /\ UNCHANGED ingestVars

TypesAnswer ==
    /\ filterOptions.pc = "querying"
    /\ filterOptions.typesResult = <<>>
    /\ filterOptions' = [filterOptions EXCEPT
                            !.typesResult = <<TypesQuery(filterOptions.store)>>]
    /\ UNCHANGED <<filterVars, history, sortCall, pages, handler>>
    /\ UNCHANGED ingestVars

SourcesAnswer ==
    /\ filterOptions.pc = "querying"
    /\ filterOptions.sourcesResult = <<>>
    /\ filterOptions' = [filterOptions EXCEPT
                            !.sourcesResult =
                                <<SourcesQuery(filterOptions.store)>>]
    /\ UNCHANGED <<filterVars, history, sortCall, pages, handler>>
    /\ UNCHANGED ingestVars

\* queries.ts:425-448: the maps and null filters, then the return
ReturnOptions ==
    /\ filterOptions.pc = "querying"
    /\ filterOptions.enginesResult # <<>>
    /\ filterOptions.typesResult # <<>>
    /\ filterOptions.sourcesResult # <<>>
    /\ filterOptions' = [filterOptions EXCEPT
           !.pc = "done",
           !.ret = [returned |-> TRUE,
                    ocrEngines |-> filterOptions.enginesResult[1],
                    vehicleTypes |-> filterOptions.typesResult[1],
                    sources |-> filterOptions.sourcesResult[1]]]
    /\ UNCHANGED <<filterVars, history, sortCall, pages, handler>>
    /\ UNCHANGED ingestVars

NextOptions ==
    \/ EnginesAnswer
    \/ TypesAnswer
    \/ SourcesAnswer
    \/ ReturnOptions

SpecOptions == InitOptions /\ [][NextOptions]_vars

\* The characters of the model in code-unit order.
CodeUnits ==
    <<" ", "%", "A", "B", "_", "a", "b", "c", "d", "e", "f", "g", "h", "i",
      "j", "k", "l", "m", "n", "o", "p", "q", "r", "s", "t", "u", "v", "w",
      "x", "y", "z">>

CodeUnit(c) == CHOOSE i \in 1..Len(CodeUnits) : CodeUnits[i] = c

\* a < b as strings
RECURSIVE StringLess(_, _)
StringLess(a, b) ==
    IF b = <<>> THEN FALSE
    ELSE IF a = <<>> THEN TRUE
    ELSE IF Head(a) = Head(b) THEN StringLess(Tail(a), Tail(b))
    ELSE CodeUnit(Head(a)) < CodeUnit(Head(b))

\* A list of strings without empty string, strictly ascending (hence without
\* duplicates), all of whose entries are among `stored`.
SortedOptionList(list, stored) ==
    /\ \A i \in 1..Len(list) : list[i] # <<>> /\ list[i] \in stored
    /\ \A i, j \in 1..Len(list) : i < j => StringLess(list[i], list[j])

\* C13: each of the three lists getFilterOptions returns has no null and no
\* empty-string entry, has no duplicates, is sorted ascending as a list of
\* strings, and holds only values that occur in storage for its column.
C13_OptionListsSorted ==
    filterOptions.pc = "done" =>
        LET store == filterOptions.store
            rows == store.detectedPlateResults
        IN /\ SortedOptionList(
                  filterOptions.ret.ocrEngines,
                  NotNull([i \in 1..Len(rows) |-> rows[i].ocrEngineUsed]))
           /\ SortedOptionList(
                  filterOptions.ret.vehicleTypes,
                  NotNull([i \in 1..Len(rows) |-> rows[i].typeVehicle]))
           /\ SortedOptionList(filterOptions.ret.sources,
                               NotNull(store.detections))

(***************************************************************************)
(* SpecPages: a client reads a listing page by page, pageIndex 0, 1, ...,  *)
(* with the same filters, sort specs and page size, on a store nobody      *)
(* writes to. Each page is a fetchDetectionHistory call of its own, whose  *)
(* page query the database answers in any order its ORDER BY allows.       *)
(***************************************************************************)
InitPages ==
    /\ call = [p \in Calls |-> IdleCall]
    /\ detections = {}
    /\ licensePlates = {}
    /\ detectedPlateResults = {}
    /\ detectionsSeq = 0
    /\ licensePlatesSeq = 0
    /\ resultsSeq = 0
    /\ filterPc = "unused"
    /\ queryParams = <<>>
    /\ filters = <<>>
    /\ whereCondition = <<>>
    /\ history = <<>>
    /\ sortCall = <<>>
    /\ filterOptions = <<>>
    /\ pages \in [pc : {"fetching"}, store : Stores,
                  pageSize : 1..MaxPageSize, sorting : Sortings,
                  filters : HistoryFilterLists, pageIndex : {0},
                  fetched : {<<>>}]
    /\ handler = <<>>

\* queries.ts:320-391, called with pageIndex = pages.pageIndex
FetchPage ==
    /\ pages.pc = "fetching"
    /\ LET pagination == [pageIndex |-> pages.pageIndex,
                          pageSize |-> pages.pageSize]
           where == parseFiltersToDrizzle(pages.filters)
           totalRowCount ==
               Cardinality(Selected(CountFrom(pages.store), where))
       IN \E order \in Orderings(Selected(BaseQuery(pages.store), where),
                                 parseSortingToDrizzle(pages.sorting)) :
              pages' = [pages EXCEPT
                  !.fetched = Append(@, Page(order, Offset(pagination),
                                             Limit(pagination))),
                  !.pageIndex = @ + 1,
                  !.pc = IF (pages.pageIndex + 1) * pages.pageSize
                                >= totalRowCount
                         THEN "done" ELSE "fetching"]
    /\ UNCHANGED <<filterVars, history, sortCall, filterOptions, handler>>
    /\ UNCHANGED ingestVars

NextPages == FetchPage

SpecPages == InitPages /\ [][NextPages]_vars

\* The rows of the store that match the client's filters.
PagesMatching ==
    Selected(BaseQuery(pages.store), parseFiltersToDrizzle(pages.filters))

RECURSIVE Concat(_)
Concat(seqs) == IF seqs = <<>> THEN <<>> ELSE Head(seqs) \o Concat(Tail(seqs))

\* The fetched pages hold every matching row exactly once.
EveryRowOnce ==
    LET all == Concat(pages.fetched)
    IN /\ Len(all) = Cardinality(PagesMatching)
       /\ Range(all) = PagesMatching

\* No two matching rows compare equal under the compiled ordering.
UniqueSortKeys ==
    \A row1, row2 \in PagesMatching :
        row1 # row2 =>
            \/ Before(row1, row2, parseSortingToDrizzle(pages.sorting))
            \/ Before(row2, row1, parseSortingToDrizzle(pages.sorting))

\* C19 as stated: with fixed filters, sort specs and page size and no
\* writes, the pages 0 .. ceil(N/s)-1 fetched in succession hold every
\* matching row exactly once, for every sort spec, also when its keys are
\* not unique among the matching rows.
C19_EveryRowOnce == pages.pc = "done" => EveryRowOnce

\* C19 amended: the pages 0 .. ceil(N/s)-1 fetched in succession hold every
\* matching row exactly once when no two matching rows have equal sort keys.
C19_EveryRowOnceIfKeysUnique ==
    (pages.pc = "done" /\ UniqueSortKeys) => EveryRowOnce

\* C19 witness: three matching rows with distinct detection times have been
\* read in pages of two, sorted by date.
C19_Witness ==
    /\ pages.pc = "done"
    /\ UniqueSortKeys
    /\ Cardinality(PagesMatching) = 3
    /\ pages.pageSize = 2
    /\ Len(pages.fetched) = 2
    /\ Len(pages.sorting) = 1
    /\ pages.sorting[1].id = "date"
    /\ EveryRowOnce

(***************************************************************************)
(* SpecHandler: one request to POST /process-image or /process-image-url   *)
(* (index.ts:277-422). The handler validates the request, forwards it to   *)
(* the recognition service, hands the answer to insertDetectionAndResults  *)
(* and responds. insertDetectionAndResults returns (a Detection, or null   *)
(* for a response without detections) or raises its ingestion error.       *)
(***************************************************************************)
Routes == {"/process-image", "/process-image-url"}

\* What the fetch of the recognition service gives: it throws ("failed"),
\* or answers with response.ok false ("error") or true ("ok") and a body.
BackendOutcomes ==
    {[kind |-> "ok", status |-> 200, result |-> r] : r \in ApiResponses}
    \cup {[kind |-> "error", status |-> st, result |-> r] :
              st \in {415, 422, 503}, r \in ApiResponses}
    \cup {[kind |-> "failed", status |-> 0, result |-> NoResponse]}

NoBackend == [kind |-> "none", status |-> 0, result |-> NoResponse]

\* index.ts:315-320, 393: the status passed on from a backend error
StatusCode(route, status) ==
    IF route = "/process-image"
    THEN IF status \in {415, 413, 422} THEN status ELSE 500
    ELSE IF status = 422 THEN 422 ELSE 500

\* The HTTP response: its status, the detections of its body (none in an
\* error body) and the error of its body.
NoHttpResponse == [status |-> 0, detections |-> <<>>, error |-> "none"]

\* index.ts:332-333, 405-406: c.json(result) with status 200
ResultResponse(result) ==
    [status |-> 200, detections |-> result.detections, error |-> "none"]

\* index.ts:334-355, 407-421: the handler's catch block after an error whose
\* message names neither a connection failure nor multipart parsing
ServerErrorResponse(route) ==
    [status |-> 500, detections |-> <<>>,
     error |-> IF route = "/process-image"
               THEN "An unexpected server error occurred."
               ELSE "An unexpected server error occurred processing the URL."]

InitHandler ==
    /\ call = [p \in Calls |-> IdleCall]
    /\ detections = {}
    /\ licensePlates = {}
    /\ detectedPlateResults = {}
    /\ detectionsSeq = 0
    /\ licensePlatesSeq = 0
    /\ resultsSeq = 0
    /\ filterPc = "unused"
    /\ queryParams = <<>>
    /\ filters = <<>>
    /\ whereCondition = <<>>
    /\ history = <<>>
    /\ sortCall = <<>>
    /\ filterOptions = <<>>
    /\ pages = <<>>
    /\ handler \in [pc : {"start"}, route : Routes, validRequest : BOOLEAN,
                    backend : {NoBackend}, inserted : {"none"},
                    response : {NoHttpResponse}]

\* index.ts:282-298, 366-378: a missing file or url
RejectRequest ==
    /\ handler.pc = "start"
    /\ ~handler.validRequest
    /\ handler' = [handler EXCEPT
           !.pc = "done",
           !.response = [status |-> 400, detections |-> <<>>,
                         error |-> "Invalid request."]]
    /\ UNCHANGED <<filterVars, history, sortCall, filterOptions, pages>>
    /\ UNCHANGED ingestVars

\* index.ts:306-323, 380-396: the fetch and the !response.ok branch
BackendFetch(outcome) ==
    /\ handler.pc = "start"
    /\ handler.validRequest
    /\ handler' = [handler EXCEPT
           !.backend = outcome,
           !.pc = IF outcome.kind = "ok" THEN "insert" ELSE "done",
           !.response =
               CASE outcome.kind = "ok" -> NoHttpResponse
                 [] outcome.kind = "error" ->
                        [status |-> StatusCode(handler.route, outcome.status),
                         detections |-> outcome.result.detections,
                         error |-> "backend"]
                 [] OTHER ->
                        [status |-> 502, detections |-> <<>>,
                         error |-> "Could not connect to the backend processing service."]]
    /\ UNCHANGED <<filterVars, history, sortCall, filterOptions, pages>>
    /\ UNCHANGED ingestVars

\* index.ts:325-333, 398-406: insertDetectionAndResults returns
InsertReturns ==
    /\ handler.pc = "insert"
    /\ handler' = [handler EXCEPT
           !.pc = "done",
           !.inserted = "returned",
           !.response = ResultResponse(handler.backend.result)]
    /\ UNCHANGED <<filterVars, history, sortCall, filterOptions, pages>>
    /\ UNCHANGED ingestVars

\* index.ts:325, 398 with queries.ts:162-165: insertDetectionAndResults
\* raises, which only a response with detections can make it do; the await
\* is directly in the handler's try block.
InsertRaises ==
    /\ handler.pc = "insert"
    /\ ~HasNoDetections(handler.backend.result)
    /\ Catch = ThrowError
    /\ handler' = [handler EXCEPT
           !.pc = "done",
           !.inserted = "raised",
           !.response = ServerErrorResponse(handler.route)]
    /\ UNCHANGED <<filterVars, history, sortCall, filterOptions, pages>>
    /\ UNCHANGED ingestVars

NextHandler ==
    \/ RejectRequest
    \/ \E outcome \in BackendOutcomes : BackendFetch(outcome)
    \/ InsertReturns
    \/ InsertRaises

SpecHandler == InitHandler /\ [][NextHandler]_vars

\* C20: when the recognition service has answered successfully with at
\* least one detection and the ingestion raises, the handler still returns
\* the recognition detections to the client, marked with a DB-save error.
C20_DetectionsSurviveDbFailure ==
    (/\ handler.pc = "done"
     /\ handler.backend.kind = "ok"
     /\ Len(handler.backend.result.detections) >= 1
     /\ handler.inserted = "raised")
    => /\ handler.response.detections = handler.backend.result.detections
       /\ handler.response.error # "none"

====
